---- MODULE Spec2Model ----
(***************************************************************************)
(* Appointment booking API (Express + Mongoose).                           *)
(*                                                                         *)
(* The store holds the Appointment collection (documents are never         *)
(* deleted, so a document's _id is its position in the sequence) and the   *)
(* isActive flag of every identity.  Time is counted in hours; the server  *)
(* clock `now` is what `new Date()` returns, and a Date value is the hour  *)
(* it denotes (server time zone = UTC, so that midnight of day k is        *)
(* k * HoursPerDay).                                                       *)
(***************************************************************************)
EXTENDS Integers, Sequences, FiniteSets, TLC

(* ------------------------------ bounds --------------------------------- *)

MaxAppts == 2

MaxNow == 24

MaxInFlight == 2

MaxUsers == 2

MaxFetches == 3

(* ------------------------- program constants --------------------------- *)

HoursPerDay == 24

\* the clock starts one hour before midnight of day 1
StartNow == HoursPerDay - 1

TwoHours == 2

DefaultLimit == 20

FallbackLimit == 50

(* ------------------------------ identities ----------------------------- *)

Patients == {"p1", "p2"}

Doctors == {"d1", "d2", "d3"}

Admins == {"a1", "a2"}

UserIds == Patients \cup Doctors \cup Admins

\* role is set at registration and no handler changes it
RoleOf(u) ==
    IF u \in Patients THEN "patient"
    ELSE IF u \in Doctors THEN "doctor"
    ELSE "admin"

StatusEnum == {"pending", "confirmed", "cancelled", "completed"}

(* --------------------------- request inputs ---------------------------- *)

NoId == "none"

NoDate == -1

NoTime == ""

NoStatus == ""

\* query strings: limit and page absent (NoParam) or a number
NoParam == -1

\* body.notes / body.symptoms absent
NoText == ""

\* body.duration absent
NoDuration == -1

DefaultDuration == 30

MinDuration == 15

MaxDuration == 120

\* a doctorId that is not a well-formed ObjectId
BadId == "not-an-id"

\* day 0 midnight (already past), day 1 midnight
DateInputs == {NoDate, 0, HoursPerDay}

TimeInputs == {NoTime, "01:00", "03:00", "25:00"}

\* a well-formed id that no identity has
UnknownId == "u9"

DoctorIdInputs == {"d1", "d2", "d3", "p2", "a1", UnknownId, BadId, NoId}

StatusInputs == StatusEnum \cup {"archived"}

ApptIdInputs == 1..(MaxAppts + 1)

\* the callers of the appointment requests: the identities that start active
\* (one admin standing for both); d3 starts deactivated
ActiveCallers == UserIds \ {"d3", "a2"}

MinutesPerHour == 60

\* the slots <<doctorId, date, time>> that well-formed bookings ask for
BookedSlots ==
    {<<"d1", HoursPerDay, "01:00">>, <<"d1", HoursPerDay, "03:00">>,
     <<"d2", HoursPerDay, "01:00">>}

\* request bodies <<caller, body.patientId, doctorId, date, time>>: both
\* patients with every well-formed booking, the other roles with one, and one
\* patient with each malformed field in turn and with another identity named
\* in the body; a date already past with an unknown doctorId and from a doctor
CreateRequests ==
    {<<p, NoId, s[1], s[2], s[3]>> : p \in Patients, s \in BookedSlots}
    \cup ({"d1", "d2", "a1", "d3"} \X {NoId} \X {"d1"} \X {HoursPerDay} \X {"01:00"})
    \cup ({"p1"} \X {NoId} \X DoctorIdInputs \X {HoursPerDay} \X {"01:00"})
    \cup ({"p1"} \X {NoId} \X {"d1"} \X DateInputs \X {"01:00"})
    \cup ({"p1"} \X {NoId} \X {"d1"} \X {HoursPerDay} \X TimeInputs)
    \cup ({"p1", "d1"} \X {"p2"} \X {"d1"} \X {HoursPerDay} \X {"03:00"})
    \cup ({"p1", "d1"} \X {NoId} \X {UnknownId} \X {0} \X {"01:00"})

\* body.duration: absent, negative, 0, and the values around both limits
DurationInputs ==
    {NoDuration, -5, 0, MinDuration - 1, MinDuration, DefaultDuration,
     MaxDuration, MaxDuration + 1}

\* bookings <<caller, body.patientId, doctorId, date, time, notes, symptoms,
\* duration, isUrgent>> with the optional fields: every duration for one slot,
\* the text fields and the flag for another, and one booking whose date is not
\* a midnight (day 1, 01:00) while its time field names an earlier hour
FieldRequests ==
    {<<"p1", NoId, "d1", HoursPerDay, "01:00", NoText, NoText, d, FALSE>> :
        d \in DurationInputs}
    \cup {<<"p1", NoId, "d1", HoursPerDay, "03:00", " fever ", "cough", NoDuration, TRUE>>,
          <<"p2", NoId, "d1", HoursPerDay, "03:00", NoText, "cough", MaxDuration, FALSE>>,
          <<"p2", NoId, "d2", HoursPerDay + 1, "00:00", NoText, NoText, NoDuration, FALSE>>,
          <<"p2", NoId, "d1", HoursPerDay, "02:00", NoText, NoText, NoDuration, FALSE>>}

\* req.params.userId of updateUserStatus: both admins, a patient, an active
\* and a deactivated doctor, an id of no identity and one that is no id
UserIdInputs == {"a1", "a2", "p1", "d1", "d3", UnknownId, BadId}

\* <<caller, userId, body.isActive>>: both admins and one caller of each
\* other role
StatusRequests == {"a1", "a2", "p1", "d1"} \X UserIdInputs \X BOOLEAN

\* <<caller, userId, body.isActive>> of the requests that run step by step:
\* each admin deactivating the other, itself, a patient and ids that resolve
\* to nobody, a reactivation, and callers that are refused before the handler
ToggleRequests ==
    (Admins \X {"a1", "a2", "p1", UnknownId, BadId} \X {FALSE})
    \cup {<<"a1", "a2", TRUE>>, <<"p1", "a1", FALSE>>, <<"d3", "a1", FALSE>>}

\* the bookings of one patient, one for every doctorId, made while identities
\* are activated and deactivated
StatusCreateRequests ==
    {"p1"} \X {NoId} \X DoctorIdInputs \X {HoursPerDay} \X {"01:00"}

\* <<caller, appointmentId, status>> for the stores built by FieldRequests
FieldUpdateRequests ==
    {"p1", "d1", "a1"} \X (1..MaxAppts) \X {"pending", "confirmed", "cancelled"}

\* <<caller, appointmentId, status>>
UpdateRequests ==
    (ActiveCallers \X (1..MaxAppts) \X StatusEnum)
    \cup ({"p2", "a1"} \X {1} \X StatusInputs)
    \cup ({"p1", "d3"} \X ApptIdInputs \X {"confirmed"})

\* the bookings, updates and cancellations sent around a double-booked slot
DuplicateCreateRequests ==
    (Patients \X {NoId} \X {"d1"} \X {HoursPerDay} \X {"03:00"})
    \cup {<<"p1", NoId, "d2", HoursPerDay, "01:00">>}

DuplicateUpdateRequests ==
    ({"p1", "a1"} \X (1..MaxAppts) \X {"confirmed"}) \cup {<<"d1", 1, "cancelled">>}

DuplicateCancelRequests == {"p1", "p2", "d2"} \X (1..MaxAppts)

\* <<caller, appointmentId>>
CancelRequests ==
    (ActiveCallers \X (1..MaxAppts)) \cup ({"p1", "d3"} \X ApptIdInputs)

GetRequests ==
    (ActiveCallers \X (1..MaxAppts)) \cup ({"p1", "d3"} \X ApptIdInputs)

\* <<caller, status, date, limit, page>>
ListRequests ==
    (ActiveCallers \X {NoStatus} \X {NoDate} \X {NoParam, 1} \X {NoParam, 2, 3})
    \cup ({"a1"} \X {NoStatus} \X {NoDate} \X {0, 2} \X {0, 2})
    \cup ({"p1", "a1"} \X {"cancelled", "archived"} \X {NoDate, 0, HoursPerDay}
            \X {NoParam} \X {NoParam})
    \cup {<<"d3", NoStatus, NoDate, NoParam, NoParam>>}

\* registerUser bodies: email in lower case, in upper case, capitalised, not
\* an address, absent
NoEmail == ""

EmailInputs == {"ann@x.io", "ANN@x.io", "Bob@x.io", "ann-at-x", NoEmail}

NoRole == ""

RoleEnum == {"patient", "doctor", "admin"}

RoleInputs == RoleEnum \cup {NoRole, "root"}

\* <<email, role>>
RegisterRequests ==
    (EmailInputs \X {NoRole}) \cup ({"Bob@x.io"} \X RoleInputs)

\* a phone number of 16 characters (maxlength is 15)
LongPhone == "0123456789012345"

\* <<caller, params.userId>> of getUserProfile; the routes mounted
\* (/profile) carry no userId, the handler reads one when there is
ProfileRequests ==
    {"p1", "d1", "a1", "d3"} \X {NoId, "p1", "p2", UnknownId, BadId}

\* what an updateUserProfile body may carry beside name, phone and
\* specialization: <<email, role, password, isActive>>, absent or all set
NoExtras == <<NoEmail, NoRole, NoText, FALSE>>

ExtraInputs == {NoExtras, <<"evil@x.io", "admin", "hacked1", TRUE>>}

\* <<caller, params.userId, name, phone, specialization, extras>>
UpdateProfileRequests ==
    ({"p1", "a1"} \X {NoId, "p2"}
        \X {<<"Ann", "555", "cardio">>, <<" fever ", NoText, NoText>>,
            <<NoText, LongPhone, NoText>>, <<NoText, NoText, NoText>>}
        \X {NoExtras})
    \cup ({"p1", "d1", "a1", "d3"} \X {NoId, "p2", UnknownId, BadId}
            \X {<<"Ann", "555", "cardio">>} \X ExtraInputs)

\* <<caller, query.role>> of getAllUsers
AllUsersRequests == {"p1", "d1", "a1", "d3"} \X {NoRole, "doctor", "root"}

\* the password every identity registered with
InitialPassword == "secret1"

\* minlength of the password, in schema and handler
MinPasswordLength == 6

\* passwords sent to changePassword and loginUser: the one set at
\* registration, a wrong one, a new one, one of 5 characters, none
PasswordInputs == {InitialPassword, "wrong12", "newpass1", "short", NoText}

\* the identities that are deactivated and reactivated: a patient and the
\* doctor that starts deactivated
DeactivatedCallers == {"p1", "d3"}

\* <<caller, userId, body.isActive>> of the admin's toggles
DeactivationRequests == {"a1"} \X DeactivatedCallers \X BOOLEAN

\* <<email, password>> of the logins tried for them
DeactivatedLoginRequests ==
    {"p1@x.io", "d3@x.io"} \X {InitialPassword, "wrong12", NoText}

\* <<caller, currentPassword, newPassword>>
ChangePasswordRequests ==
    ({"p1"} \X PasswordInputs \X PasswordInputs)
    \cup {<<"p2", InitialPassword, "newpass1">>, <<"d3", InitialPassword, "newpass1">>}

\* <<email, password>> of the logins made around password changes
PasswordLoginRequests ==
    ({"p1@x.io"} \X PasswordInputs) \cup {<<"p2@x.io", InitialPassword>>}

\* <<email, password>> of loginUser: the right and a wrong password, the
\* address in another letter case, a deactivated identity, an unknown
\* address, a missing field
LoginRequests ==
    {<<"p1@x.io", InitialPassword>>, <<"P1@x.io", InitialPassword>>,
     <<"p1@x.io", "wrong12">>, <<"d3@x.io", InitialPassword>>,
     <<"a1@x.io", InitialPassword>>, <<"ann@x.io", InitialPassword>>,
     <<"p1@x.io", NoText>>, <<NoEmail, InitialPassword>>}

\* one request of every operation that answers with user data
ResponseRegisterRequests == {<<"ann@x.io", NoRole>>, <<"ANN@x.io", "doctor">>}

ResponseCallers == {"p1", "a1", "d3"}

ResponseStatusRequests == {"a1"} \X {"d2"} \X BOOLEAN

ResponseProfileUpdates ==
    {"p1"} \X {NoId} \X {<<"Ann", "555", "cardio">>} \X ExtraInputs

ResponseCreateRequests ==
    {"p1"} \X {NoId} \X {"d1", "d2"} \X {HoursPerDay} \X {"01:00"}

ResponseUpdateRequests == {"d1", "p2"} \X {1} \X {"confirmed"}

VARIABLES appointments, isActive, now, req, res, reqs, users, regs, profiles,
          toggles, client

vars == <<appointments, isActive, now, req, res, reqs, users, regs, profiles,
          toggles, client>>

ApptIds == 1..Len(appointments)

(* ------------------------- Appointment model --------------------------- *)

\* time: match /^([0-1]?[0-9]|2[0-3]):[0-5][0-9]$/
TimeMatches(t) == t \in {"00:00", "01:00", "02:00", "03:00"}

\* parseInt(this.time.split(':')[0])
HourOf(t) ==
    CASE t = "00:00" -> 0
      [] t = "01:00" -> 1
      [] t = "02:00" -> 2
      [] t = "03:00" -> 3
      [] OTHER -> 0

\* date validator: value > new Date()
DateValidator(value) == value > now

\* schema validation, run by save() before the pre('save') hooks
ValidateAppointment(a) ==
    /\ a.patientId # NoId
    /\ a.doctorId # NoId
    /\ a.date # NoDate
    /\ DateValidator(a.date)
    /\ a.time # NoTime
    /\ TimeMatches(a.time)
    /\ a.status \in StatusEnum
    /\ a.duration >= MinDuration
    /\ a.duration <= MaxDuration

\* a findOne without the status filter: cancelled documents block the slot
ExistingAppointment_AnyStatus(store, a, id) ==
    \E j \in 1..Len(store) :
        /\ store[j].doctorId = a.doctorId
        /\ store[j].date = a.date
        /\ store[j].time = a.time
        /\ j # id

\* the findOne of pre('save'): another non-cancelled document of the slot
ExistingAppointment(store, a, id) ==
    \E j \in 1..Len(store) :
        /\ store[j].doctorId = a.doctorId
        /\ store[j].date = a.date
        /\ store[j].time = a.time
        /\ store[j].status # "cancelled"
        /\ j # id

\* new Date(this.date); setHours(h); setMinutes(m)
AppointmentDateTime(a) ==
    (a.date \div HoursPerDay) * HoursPerDay + HourOf(a.time)

canBeCancelled(a) == AppointmentDateTime(a) > now + TwoHours

\* hours * 60 + minutes of a time string (every time sent is a full hour)
StartMinutes(t) == HourOf(t) * MinutesPerHour

\* the client's doTimeSlotsOverlap(start1, duration1, start2, duration2)
doTimeSlotsOverlap(start1, duration1, start2, duration2) ==
    /\ StartMinutes(start1) < StartMinutes(start2) + duration2
    /\ StartMinutes(start2) < StartMinutes(start1) + duration1

(* ----------------------------- middleware ------------------------------ *)

\* a middleware that only checks that the token's user exists
authenticateToken_ExistsOnly(caller) == caller \in UserIds

\* authenticateToken: the token's user must exist and be active
authenticateToken(caller) == isActive[caller]

authorizeRole(caller, role) == RoleOf(caller) = role

\* what the caller receives: the HTTP status, the message, the _ids of the
\* appointments returned, the user objects returned (each with the names of
\* the fields it carries) and the token returned (with the names of its claims)
NoToken == [id |-> NoId, fields |-> {}]

Response(code, msg) ==
    [code |-> code, msg |-> msg, ids |-> <<>>, users |-> {}, token |-> NoToken]

\* the request being handled: the handler, req.user, req.params, req.body
\* and req.query
Request(op, caller) ==
    [op |-> op, caller |-> caller, id |-> 0, status |-> NoStatus,
     patientId |-> NoId, doctorId |-> NoId, date |-> NoDate, time |-> NoTime,
     notes |-> NoText, symptoms |-> NoText, duration |-> NoDuration,
     isUrgent |-> FALSE, limit |-> NoParam, page |-> NoParam,
     email |-> NoEmail, role |-> NoRole, userId |-> NoId, isActive |-> FALSE,
     name |-> NoText, phone |-> NoText, specialization |-> NoText,
     password |-> NoText, newPassword |-> NoText]

SlotBooked == "Appointment slot is already booked"

(* ------------------------------ User model ---------------------------- *)

\* String.prototype.toLowerCase, and the schema's lowercase: true (the
\* addresses sent carry no surrounding blanks, so trim: true leaves them)
ToLowerCase(e) ==
    CASE e = "ANN@x.io" -> "ann@x.io"
      [] e = "P1@x.io" -> "p1@x.io"
      [] e = "Bob@x.io" -> "bob@x.io"
      [] OTHER -> e

\* email: match /^\w+([.-]?\w+)*@\w+([.-]?\w+)*(\.\w{2,3})+$/
EmailMatches(e) == ToLowerCase(e) \in {"ann@x.io", "bob@x.io"}

\* the address each identity registered with
EmailOf(u) ==
    CASE u = "p1" -> "p1@x.io"
      [] u = "p2" -> "p2@x.io"
      [] u = "d1" -> "d1@x.io"
      [] u = "d2" -> "d2@x.io"
      [] u = "d3" -> "d3@x.io"
      [] u = "a1" -> "a1@x.io"
      [] OTHER -> "a2@x.io"

\* bcrypt.hash(password, 12)
Hash(password) == <<"bcrypt", password>>

\* bcrypt.compare(candidatePassword, this.password)
comparePassword(candidatePassword, stored) == Hash(candidatePassword) = stored

\* the User document of an identity as registration stored it
InitialProfile(u) ==
    [name |-> u, email |-> EmailOf(u), role |-> RoleOf(u), phone |-> NoText,
     specialization |-> NoText, password |-> Hash(InitialPassword)]

\* the fields of userSchema.methods.getProfile
ProfileFields ==
    {"_id", "name", "email", "role", "phone", "specialization", "isActive",
     "createdAt"}

\* user.getProfile() of the identity u
getProfile(u) == [id |-> u, fields |-> ProfileFields]

\* a User document as a query loads it, serialised by res.json: _id and the
\* fields selected
Select(u, fields) == [id |-> u, fields |-> {"_id"} \cup fields]

\* populate('patientId', 'name email phone')
PatientPopulate == {"name", "email", "phone"}

\* populate('doctorId', 'name email phone specialization'), and the select
\* of both doctor lists
DoctorPopulate == {"name", "email", "phone", "specialization"}

\* every path of userSchema; password is select: false
UserPaths ==
    {"name", "email", "password", "role", "phone", "specialization",
     "isActive", "createdAt", "updatedAt"}

\* the patient and the doctor of an appointment as populate loads them
Populated(a) ==
    {Select(a.patientId, PatientPopulate), Select(a.doctorId, DoctorPopulate)}

\* jwt.sign({ userId, email, role }, ...)
generateToken(u) == [id |-> u, fields |-> {"userId", "email", "role"}]

(* ------------------------------- client -------------------------------- *)

\* the identities that use the tab: two patients and the doctor that starts
\* deactivated
ClientUsers == {"p1", "p2", "d3"}

\* localStorage.getItem('token') at the first render: nothing, or a token
\* left by an earlier session
StoredTokens == {NoToken} \cup {generateToken(u) : u \in ClientUsers}

\* useState(null) of user
NoUser == [id |-> NoId, fields |-> {}]

\* the AuthProvider before it is mounted
Unmounted ==
    [mounted |-> FALSE, user |-> NoUser, token |-> NoToken, storage |-> NoToken,
     loading |-> TRUE, fetches |-> <<>>]

\* the effect on [token]: newToken is the state after the render, oldToken
\* the one before; fetchUser starts a GET /auth/me when there is a token and
\* sets loading to false at once when there is none
EffectFetches(oldToken, newToken) ==
    IF newToken # oldToken /\ newToken # NoToken
    THEN Append(client.fetches, newToken)
    ELSE client.fetches

EffectLoading(oldToken, newToken) ==
    IF newToken # oldToken /\ newToken = NoToken THEN FALSE ELSE client.loading

\* the first render: token is read from localStorage, and the effect runs
Mount(stored) ==
    /\ ~client.mounted
    /\ client' = [mounted |-> TRUE, user |-> NoUser, token |-> stored,
                  storage |-> stored, loading |-> stored # NoToken,
                  fetches |-> IF stored # NoToken THEN <<stored>> ELSE <<>>]
    /\ UNCHANGED <<appointments, isActive, now, req, res, reqs, users, regs, profiles, toggles>>

\* login(userData, jwtToken), and the effect when the token changed
login(userData, jwtToken) ==
    /\ client.mounted
    /\ Len(EffectFetches(client.token, jwtToken)) <= MaxFetches
    /\ client' = [client EXCEPT !.user = userData, !.token = jwtToken,
                                !.storage = jwtToken,
                                !.fetches = EffectFetches(client.token, jwtToken)]
    /\ UNCHANGED <<appointments, isActive, now, req, res, reqs, users, regs, profiles, toggles>>

\* logout(), and the effect when the token changed
logout ==
    /\ client.mounted
    /\ client' = [client EXCEPT !.user = NoUser, !.token = NoToken,
                                !.storage = NoToken,
                                !.loading = EffectLoading(client.token, NoToken)]
    /\ UNCHANGED <<appointments, isActive, now, req, res, reqs, users, regs, profiles, toggles>>

\* the fetches in flight without the i-th
Settled(i) ==
    SubSeq(client.fetches, 1, i - 1) \o SubSeq(client.fetches, i + 1, Len(client.fetches))

\* the GET /auth/me sent with token fetches[i] is answered 200: setUser of
\* the profile of the token's identity, then setLoading(false)
FetchSucceeds(i) ==
    /\ i \in 1..Len(client.fetches)
    /\ authenticateToken(client.fetches[i].id)
    /\ client' = [client EXCEPT !.user = getProfile(client.fetches[i].id),
                                !.loading = FALSE, !.fetches = Settled(i)]
    /\ UNCHANGED <<appointments, isActive, now, req, res, reqs, users, regs, profiles, toggles>>

\* the GET /auth/me rejects (a 401, or no answer at all): the catch block
\* clears user, token and localStorage, then setLoading(false)
FetchFails(i) ==
    /\ i \in 1..Len(client.fetches)
    /\ client' = [client EXCEPT !.user = NoUser, !.token = NoToken,
                                !.storage = NoToken, !.loading = FALSE,
                                !.fetches = Settled(i)]
    /\ UNCHANGED <<appointments, isActive, now, req, res, reqs, users, regs, profiles, toggles>>

\* the ProtectedRoute element rendered for the current context
ProtectedRoute ==
    IF client.loading THEN "Loading..."
    ELSE IF client.user = NoUser THEN "Navigate to /login"
    ELSE "children"

(* ------------------------------- save() -------------------------------- *)

\* a hook that guards inserts only (if (!this.isNew) return next())
SaveOutcome_NewOnly(a, id) ==
    IF ~ValidateAppointment(a) THEN "ValidationError"
    ELSE IF id > Len(appointments) /\ ExistingAppointment(appointments, a, id)
    THEN SlotBooked
    ELSE "ok"

\* save() of the document a with _id id: schema validation first, then the
\* pre('save') conflict hook; "ok" only when both pass
SaveOutcome(a, id) ==
    IF ~ValidateAppointment(a) THEN "ValidationError"
    ELSE IF ExistingAppointment(appointments, a, id) THEN SlotBooked
    ELSE "ok"

\* ownership checked for patients only
AccessDenied_PatientOnly(caller, a) ==
    RoleOf(caller) = "patient" /\ a.patientId # caller

\* the ownership checks shared by updateAppointmentStatus and cancelAppointment
AccessDenied(caller, a) ==
    \/ RoleOf(caller) = "patient" /\ a.patientId # caller
    \/ RoleOf(caller) = "doctor" /\ a.doctorId # caller

(* --------------------------- createAppointment ------------------------- *)

\* String fields with trim: true
Trim(t) ==
    CASE t = " fever " -> "fever"
      [] OTHER -> t

\* a handler reading the patient from the request body
NewAppointment_PatientFromBody(caller, bodyPatientId, doctorId, date, time, notes, symptoms, duration, isUrgent) ==
    [patientId |-> IF bodyPatientId # NoId THEN bodyPatientId ELSE caller,
     doctorId |-> doctorId, date |-> date, time |-> time, status |-> "pending",
     notes |-> Trim(notes), symptoms |-> Trim(symptoms),
     duration |-> IF duration \in {NoDuration, 0} THEN DefaultDuration ELSE duration,
     isUrgent |-> isUrgent, createdAt |-> now]

\* patientId = req.user._id; duration: duration || 30 (absent and 0 are both
\* falsy); isUrgent: isUrgent || false; status by the schema default;
\* createdAt by timestamps: true
NewAppointment(caller, bodyPatientId, doctorId, date, time, notes, symptoms, duration, isUrgent) ==
    [patientId |-> caller, doctorId |-> doctorId, date |-> date,
     time |-> time, status |-> "pending",
     notes |-> Trim(notes), symptoms |-> Trim(symptoms),
     duration |-> IF duration \in {NoDuration, 0} THEN DefaultDuration ELSE duration,
     isUrgent |-> isUrgent, createdAt |-> now]

\* a handler whose doctor lookup does not ask for isActive: true
CreateOutcome_AnyDoctor(caller, bodyPatientId, doctorId, date, time, notes, symptoms, duration, isUrgent) ==
    LET a == NewAppointment(caller, bodyPatientId, doctorId, date, time,
                            notes, symptoms, duration, isUrgent)
    IN
    IF ~authenticateToken(caller)
    THEN Response(401, "User account is deactivated")
    ELSE IF ~authorizeRole(caller, "patient")
    THEN Response(403, "Insufficient permissions")
    ELSE IF doctorId = NoId \/ date = NoDate \/ time = NoTime
    THEN Response(400, "Doctor ID, date, and time are required")
    ELSE IF doctorId = BadId
    THEN Response(500, "Failed to create appointment")
    ELSE IF ~(doctorId \in UserIds /\ RoleOf(doctorId) = "doctor")
    THEN Response(404, "Doctor not found or inactive")
    ELSE IF date <= now
    THEN Response(400, "Appointment date cannot be in the past")
    ELSE IF SaveOutcome(a, Len(appointments) + 1) = "ValidationError"
    THEN Response(400, "Validation failed")
    ELSE IF SaveOutcome(a, Len(appointments) + 1) = SlotBooked
    THEN Response(400, SlotBooked)
    ELSE Response(201, "Appointment created successfully")

\* a handler that checks the date before it looks the doctor up
CreateOutcome_DateFirst(caller, bodyPatientId, doctorId, date, time, notes, symptoms, duration, isUrgent) ==
    LET a == NewAppointment(caller, bodyPatientId, doctorId, date, time,
                            notes, symptoms, duration, isUrgent)
    IN
    IF ~authenticateToken(caller)
    THEN Response(401, "User account is deactivated")
    ELSE IF ~authorizeRole(caller, "patient")
    THEN Response(403, "Insufficient permissions")
    ELSE IF doctorId = NoId \/ date = NoDate \/ time = NoTime
    THEN Response(400, "Doctor ID, date, and time are required")
    ELSE IF date <= now
    THEN Response(400, "Appointment date cannot be in the past")
    ELSE IF doctorId = BadId
    THEN Response(500, "Failed to create appointment")
    ELSE IF ~(doctorId \in UserIds /\ RoleOf(doctorId) = "doctor" /\ isActive[doctorId])
    THEN Response(404, "Doctor not found or inactive")
    ELSE IF SaveOutcome(a, Len(appointments) + 1) = "ValidationError"
    THEN Response(400, "Validation failed")
    ELSE IF SaveOutcome(a, Len(appointments) + 1) = SlotBooked
    THEN Response(400, SlotBooked)
    ELSE Response(201, "Appointment created successfully")

CreateOutcome(caller, bodyPatientId, doctorId, date, time, notes, symptoms, duration, isUrgent) ==
    LET a == NewAppointment(caller, bodyPatientId, doctorId, date, time,
                            notes, symptoms, duration, isUrgent)
    IN
    IF ~authenticateToken(caller)
    THEN Response(401, "User account is deactivated")
    ELSE IF ~authorizeRole(caller, "patient")
    THEN Response(403, "Insufficient permissions")
    ELSE IF doctorId = NoId \/ date = NoDate \/ time = NoTime
    THEN Response(400, "Doctor ID, date, and time are required")
    ELSE IF doctorId = BadId
    THEN Response(500, "Failed to create appointment")
    ELSE IF ~(doctorId \in UserIds /\ RoleOf(doctorId) = "doctor" /\ isActive[doctorId])
    THEN Response(404, "Doctor not found or inactive")
    ELSE IF date <= now
    THEN Response(400, "Appointment date cannot be in the past")
    ELSE IF SaveOutcome(a, Len(appointments) + 1) = "ValidationError"
    THEN Response(400, "Validation failed")
    ELSE IF SaveOutcome(a, Len(appointments) + 1) = SlotBooked
    THEN Response(400, SlotBooked)
    ELSE Response(201, "Appointment created successfully")

createAppointment(caller, bodyPatientId, doctorId, date, time, notes, symptoms, duration, isUrgent) ==
    LET out == CreateOutcome(caller, bodyPatientId, doctorId, date, time,
                             notes, symptoms, duration, isUrgent)
    IN
    /\ out.code = 201 => Len(appointments) < MaxAppts
    /\ appointments' =
          IF out.code = 201
          THEN Append(appointments,
                      NewAppointment(caller, bodyPatientId, doctorId, date, time,
                                     notes, symptoms, duration, isUrgent))
          ELSE appointments
    /\ req' = [Request("create", caller) EXCEPT
                  !.patientId = bodyPatientId, !.doctorId = doctorId,
                  !.date = date, !.time = time, !.notes = notes,
                  !.symptoms = symptoms, !.duration = duration,
                  !.isUrgent = isUrgent]
    /\ res' = IF out.code = 201
              THEN [out EXCEPT
                      !.users = Populated(NewAppointment(caller, bodyPatientId, doctorId, date, time,
                                                         notes, symptoms, duration, isUrgent))]
              ELSE out
    /\ UNCHANGED <<isActive, now, reqs, users, regs, profiles, toggles, client>>

(* ------------------------ updateAppointmentStatus ---------------------- *)

UpdateOutcome(caller, id, status) ==
    IF ~authenticateToken(caller)
    THEN Response(401, "User account is deactivated")
    ELSE IF status \notin StatusEnum
    THEN Response(400, "Invalid status value")
    ELSE IF id \notin ApptIds
    THEN Response(404, "Appointment not found")
    ELSE IF AccessDenied(caller, appointments[id])
    THEN Response(403, "Access denied")
    ELSE IF SaveOutcome([appointments[id] EXCEPT !.status = status], id) # "ok"
    THEN Response(500, "Failed to update appointment status")
    ELSE Response(200, "Appointment status updated successfully")

updateAppointmentStatus(caller, id, status) ==
    LET out == UpdateOutcome(caller, id, status) IN
    /\ appointments' =
          IF out.code = 200
          THEN [appointments EXCEPT ![id].status = status]
          ELSE appointments
    /\ req' = [Request("update", caller) EXCEPT !.id = id, !.status = status]
    /\ res' = IF out.code = 200
              THEN [out EXCEPT !.users = Populated(appointments[id])]
              ELSE out
    /\ UNCHANGED <<isActive, now, reqs, users, regs, profiles, toggles, client>>

(* --------------------------- cancelAppointment ------------------------- *)

\* a handler that applies the cutoff to non-admin callers only
CancelOutcome_AdminBypass(caller, id) ==
    IF ~authenticateToken(caller)
    THEN Response(401, "User account is deactivated")
    ELSE IF id \notin ApptIds
    THEN Response(404, "Appointment not found")
    ELSE IF AccessDenied(caller, appointments[id])
    THEN Response(403, "Access denied")
    ELSE IF RoleOf(caller) # "admin" /\ ~canBeCancelled(appointments[id])
    THEN Response(400, "Appointment cannot be cancelled (less than 2 hours away)")
    ELSE IF SaveOutcome([appointments[id] EXCEPT !.status = "cancelled"], id) # "ok"
    THEN Response(500, "Failed to cancel appointment")
    ELSE Response(200, "Appointment cancelled successfully")

CancelOutcome(caller, id) ==
    IF ~authenticateToken(caller)
    THEN Response(401, "User account is deactivated")
    ELSE IF id \notin ApptIds
    THEN Response(404, "Appointment not found")
    ELSE IF AccessDenied(caller, appointments[id])
    THEN Response(403, "Access denied")
    ELSE IF ~canBeCancelled(appointments[id])
    THEN Response(400, "Appointment cannot be cancelled (less than 2 hours away)")
    ELSE IF SaveOutcome([appointments[id] EXCEPT !.status = "cancelled"], id) # "ok"
    THEN Response(500, "Failed to cancel appointment")
    ELSE Response(200, "Appointment cancelled successfully")

\* a handler that also clears the notes of the appointment it cancels
cancelAppointment_ClearsNotes(caller, id) ==
    LET out == CancelOutcome(caller, id) IN
    /\ appointments' =
          IF out.code = 200
          THEN [appointments EXCEPT ![id].status = "cancelled", ![id].notes = NoText]
          ELSE appointments
    /\ req' = [Request("cancel", caller) EXCEPT !.id = id]
    /\ res' = out
    /\ UNCHANGED <<isActive, now, reqs, users, regs, profiles, toggles, client>>

cancelAppointment(caller, id) ==
    LET out == CancelOutcome(caller, id) IN
    /\ appointments' =
          IF out.code = 200
          THEN [appointments EXCEPT ![id].status = "cancelled"]
          ELSE appointments
    /\ req' = [Request("cancel", caller) EXCEPT !.id = id]
    /\ res' = out
    /\ UNCHANGED <<isActive, now, reqs, users, regs, profiles, toggles, client>>

(* ----------------------------- read handlers -------------------------- *)

\* a filter with the doctor branch missing
RoleFilter_NoDoctorBranch(caller, a) ==
    IF RoleOf(caller) = "patient" THEN a.patientId = caller ELSE TRUE

\* the role filter of getAppointments and getAppointmentById
RoleFilter(caller, a) ==
    IF RoleOf(caller) = "patient" THEN a.patientId = caller
    ELSE IF RoleOf(caller) = "doctor" THEN a.doctorId = caller
    ELSE TRUE

\* sort({ date: 1, time: 1 }); equal keys keep the order of the (date, time)
\* index, i.e. insertion order
SortsBefore(i, j) ==
    LET a == appointments[i]
        b == appointments[j]
    IN  \/ a.date < b.date
        \/ a.date = b.date /\ HourOf(a.time) < HourOf(b.time)
        \/ a.date = b.date /\ HourOf(a.time) = HourOf(b.time) /\ i < j

RECURSIVE SortedIds(_)
SortedIds(S) ==
    IF S = {} THEN <<>>
    ELSE LET first == CHOOSE i \in S : \A j \in S \ {i} : SortsBefore(i, j)
         IN  <<first>> \o SortedIds(S \ {first})

\* find(filter): role filter, status filter (when a valid status is given),
\* date filter ($gte startDate, $lt startDate + 1 day)
ListFilter(caller, status, date) ==
    {i \in ApptIds :
        /\ RoleFilter(caller, appointments[i])
        /\ status \in StatusEnum => appointments[i].status = status
        /\ date # NoDate =>
              /\ appointments[i].date >= date
              /\ appointments[i].date < date + HoursPerDay}

\* const { limit = 20, page = 1 } = req.query; parseInt
ParsedLimit(limit) == IF limit = NoParam THEN DefaultLimit ELSE limit

ParsedPage(page) == IF page = NoParam THEN 1 ELSE page

\* getAppointmentsWithUsers: .limit(options.limit || 50).skip(options.skip || 0)
PageOf(caller, status, date, limit, page) ==
    LET sorted == SortedIds(ListFilter(caller, status, date))
        lim == IF ParsedLimit(limit) = 0 THEN FallbackLimit ELSE ParsedLimit(limit)
        skip == (ParsedPage(page) - 1) * ParsedLimit(limit)
        last == IF skip + lim < Len(sorted) THEN skip + lim ELSE Len(sorted)
    IN  SubSeq(sorted, skip + 1, last)

\* totalPages: Math.ceil(totalAppointments / parseInt(limit))
TotalPages(caller, status, date, limit) ==
    (Cardinality(ListFilter(caller, status, date)) + ParsedLimit(limit) - 1)
        \div ParsedLimit(limit)

ListOutcome(caller, status, date, limit, page) ==
    IF ~authenticateToken(caller)
    THEN Response(401, "User account is deactivated")
    ELSE IF (ParsedPage(page) - 1) * ParsedLimit(limit) < 0
    THEN Response(500, "Failed to fetch appointments")
    ELSE [Response(200, "success")
            EXCEPT !.ids = PageOf(caller, status, date, limit, page),
                   !.users = UNION {Populated(appointments[i]) :
                                      i \in {PageOf(caller, status, date, limit, page)[k] :
                                               k \in 1..Len(PageOf(caller, status, date, limit, page))}}]

getAppointments(caller, status, date, limit, page) ==
    /\ req' = [Request("list", caller) EXCEPT
                  !.status = status, !.date = date, !.limit = limit, !.page = page]
    /\ res' = ListOutcome(caller, status, date, limit, page)
    /\ UNCHANGED <<appointments, isActive, now, reqs, users, regs, profiles, toggles, client>>

GetOutcome(caller, id) ==
    IF ~authenticateToken(caller)
    THEN Response(401, "User account is deactivated")
    ELSE IF ~(id \in ApptIds /\ RoleFilter(caller, appointments[id]))
    THEN Response(404, "Appointment not found")
    ELSE [Response(200, "success")
            EXCEPT !.ids = <<id>>, !.users = Populated(appointments[id])]

getAppointmentById(caller, id) ==
    /\ req' = [Request("get", caller) EXCEPT !.id = id]
    /\ res' = GetOutcome(caller, id)
    /\ UNCHANGED <<appointments, isActive, now, reqs, users, regs, profiles, toggles, client>>

(* ------------------- getUserProfile / updateUserProfile ---------------- *)

\* req.params.userId || req.user._id
TargetOf(caller, userId) == IF userId = NoId THEN caller ELSE userId

ProfileOutcome(caller, userId) ==
    LET target == TargetOf(caller, userId) IN
    IF ~authenticateToken(caller)
    THEN Response(401, "User account is deactivated")
    ELSE IF RoleOf(caller) # "admin" /\ caller # target
    THEN Response(403, "Access denied")
    ELSE IF target = BadId
    THEN Response(500, "Failed to fetch user profile")
    ELSE IF target \notin UserIds
    THEN Response(404, "User not found")
    ELSE [Response(200, "success") EXCEPT !.users = {getProfile(target)}]

getUserProfile(caller, userId) ==
    /\ req' = [Request("profile", caller) EXCEPT !.userId = userId]
    /\ res' = ProfileOutcome(caller, userId)
    /\ UNCHANGED <<appointments, isActive, now, reqs, users, regs, profiles, toggles, client>>

\* userSchema validators that a profile update can trip: maxlength of phone
ValidateProfile(doc) == doc.phone # LongPhone

\* a handler that assigns the whole body to the document
UpdatedProfile_WholeBody(doc, name, phone, specialization, extras) ==
    [doc EXCEPT
        !.name = IF name # NoText THEN Trim(name) ELSE @,
        !.phone = IF phone # NoText THEN Trim(phone) ELSE @,
        !.specialization = IF specialization # NoText THEN Trim(specialization) ELSE @,
        !.role = IF extras[2] # NoRole THEN extras[2] ELSE @]

\* if (name) user.name = name; if (phone) ...; if (specialization) ...: the
\* other fields of the body are not read
UpdatedProfile(doc, name, phone, specialization, extras) ==
    [doc EXCEPT
        !.name = IF name # NoText THEN Trim(name) ELSE @,
        !.phone = IF phone # NoText THEN Trim(phone) ELSE @,
        !.specialization = IF specialization # NoText THEN Trim(specialization) ELSE @]

UpdateProfileOutcome(caller, userId, name, phone, specialization, extras) ==
    LET target == TargetOf(caller, userId) IN
    IF ~authenticateToken(caller)
    THEN Response(401, "User account is deactivated")
    ELSE IF RoleOf(caller) # "admin" /\ caller # target
    THEN Response(403, "Access denied")
    ELSE IF target = BadId
    THEN Response(500, "Failed to update profile")
    ELSE IF target \notin UserIds
    THEN Response(404, "User not found")
    ELSE IF ~ValidateProfile(UpdatedProfile(profiles[target], name, phone, specialization, extras))
    THEN Response(400, "Validation failed")
    ELSE [Response(200, "Profile updated successfully")
            EXCEPT !.users = {getProfile(target)}]

updateUserProfile(caller, userId, name, phone, specialization, extras) ==
    LET out == UpdateProfileOutcome(caller, userId, name, phone, specialization, extras)
        target == TargetOf(caller, userId)
    IN
    /\ profiles' =
          IF out.code = 200
          THEN [profiles EXCEPT
                  ![target] = UpdatedProfile(@, name, phone, specialization, extras)]
          ELSE profiles
    /\ req' = [Request("updateProfile", caller) EXCEPT
                  !.userId = userId, !.name = name, !.phone = phone,
                  !.specialization = specialization, !.email = extras[1],
                  !.role = extras[2], !.password = extras[3],
                  !.isActive = extras[4]]
    /\ res' = out
    /\ UNCHANGED <<appointments, isActive, now, reqs, users, regs, toggles, client>>

(* ------------------------------ getAllUsers ---------------------------- *)

\* router.get('/', authenticateToken, authorizeRole('admin')); the role
\* filter applies when role is one of the three roles; limit and page are
\* left to their defaults
AllUsersOutcome(caller, role) ==
    IF ~authenticateToken(caller)
    THEN Response(401, "User account is deactivated")
    ELSE IF ~authorizeRole(caller, "admin")
    THEN Response(403, "Insufficient permissions")
    ELSE [Response(200, "success") EXCEPT
            !.users = {getProfile(u) :
                         u \in {v \in UserIds : role \in RoleEnum => RoleOf(v) = role}}]

getAllUsers(caller, role) ==
    /\ req' = [Request("allUsers", caller) EXCEPT !.role = role]
    /\ res' = AllUsersOutcome(caller, role)
    /\ UNCHANGED <<appointments, isActive, now, reqs, users, regs, profiles, toggles, client>>

(* ------------------------ loginUser / getCurrentUser ------------------- *)

\* User.findOne({ email: email.toLowerCase() })
UserByEmail(email) == {u \in UserIds : EmailOf(u) = ToLowerCase(email)}

\* a handler that answers with the document it loaded (select('+password'))
LoginOutcome_RawDocument(email, password) ==
    IF email = NoEmail \/ password = NoText
    THEN Response(400, "Email and password are required")
    ELSE IF UserByEmail(email) = {}
    THEN Response(401, "Invalid email or password")
    ELSE LET u == CHOOSE v \in UserByEmail(email) : TRUE IN
         IF ~isActive[u]
         THEN Response(401, "Account is deactivated")
         ELSE IF ~comparePassword(password, profiles[u].password)
         THEN Response(401, "Invalid email or password")
         ELSE [Response(200, "Login successful") EXCEPT
                 !.users = {Select(u, UserPaths)}, !.token = generateToken(u)]

LoginOutcome(email, password) ==
    IF email = NoEmail \/ password = NoText
    THEN Response(400, "Email and password are required")
    ELSE IF UserByEmail(email) = {}
    THEN Response(401, "Invalid email or password")
    ELSE LET u == CHOOSE v \in UserByEmail(email) : TRUE IN
         IF ~isActive[u]
         THEN Response(401, "Account is deactivated")
         ELSE IF ~comparePassword(password, profiles[u].password)
         THEN Response(401, "Invalid email or password")
         ELSE [Response(200, "Login successful") EXCEPT
                 !.users = {getProfile(u)}, !.token = generateToken(u)]

loginUser(email, password) ==
    /\ req' = [Request("login", NoId) EXCEPT !.email = email, !.password = password]
    /\ res' = LoginOutcome(email, password)
    /\ UNCHANGED <<appointments, isActive, now, reqs, users, regs, profiles, toggles, client>>

getCurrentUser(caller) ==
    /\ req' = Request("me", caller)
    /\ res' = IF ~authenticateToken(caller)
              THEN Response(401, "User account is deactivated")
              ELSE [Response(200, "success") EXCEPT !.users = {getProfile(caller)}]
    /\ UNCHANGED <<appointments, isActive, now, reqs, users, regs, profiles, toggles, client>>

(* ------------------------------ doctor lists --------------------------- *)

\* getDoctors (without a specialization filter) and getAvailableDoctors:
\* User.find({ role: 'doctor', isActive: true }).select('name email phone
\* specialization')
DoctorsOutcome(caller) ==
    IF ~authenticateToken(caller)
    THEN Response(401, "User account is deactivated")
    ELSE [Response(200, "success") EXCEPT
            !.users = {Select(u, DoctorPopulate) : u \in {d \in Doctors : isActive[d]}}]

getDoctors(caller) ==
    /\ req' = Request("doctors", caller)
    /\ res' = DoctorsOutcome(caller)
    /\ UNCHANGED <<appointments, isActive, now, reqs, users, regs, profiles, toggles, client>>

getAvailableDoctors(caller) ==
    /\ req' = Request("doctorsList", caller)
    /\ res' = DoctorsOutcome(caller)
    /\ UNCHANGED <<appointments, isActive, now, reqs, users, regs, profiles, toggles, client>>

(* --------------------------- updateUserStatus -------------------------- *)

\* a handler without the check against the caller's own _id
StatusOutcome_NoSelfCheck(caller, userId, flag) ==
    IF ~authenticateToken(caller)
    THEN Response(401, "User account is deactivated")
    ELSE IF ~authorizeRole(caller, "admin")
    THEN Response(403, "Insufficient permissions")
    ELSE IF userId = BadId
    THEN Response(500, "Failed to update user status")
    ELSE IF userId \notin UserIds
    THEN Response(404, "User not found")
    ELSE Response(200, IF flag THEN "User activated successfully"
                       ELSE "User deactivated successfully")

\* router.patch('/:userId/status', authenticateToken, authorizeRole('admin'))
\* and the handler: findById (a userId that does not cast makes it throw),
\* the check against the caller's own _id, then the save
StatusOutcome(caller, userId, flag) ==
    IF ~authenticateToken(caller)
    THEN Response(401, "User account is deactivated")
    ELSE IF ~authorizeRole(caller, "admin")
    THEN Response(403, "Insufficient permissions")
    ELSE IF userId = BadId
    THEN Response(500, "Failed to update user status")
    ELSE IF userId \notin UserIds
    THEN Response(404, "User not found")
    ELSE IF userId = caller
    THEN Response(400, "Cannot deactivate your own account")
    ELSE Response(200, IF flag THEN "User activated successfully"
                       ELSE "User deactivated successfully")

updateUserStatus(caller, userId, flag) ==
    LET out == StatusOutcome(caller, userId, flag) IN
    /\ isActive' =
          IF out.code = 200 THEN [isActive EXCEPT ![userId] = flag] ELSE isActive
    /\ req' = [Request("status", caller) EXCEPT !.userId = userId, !.isActive = flag]
    /\ res' = IF out.code = 200 THEN [out EXCEPT !.users = {getProfile(userId)}]
              ELSE out
    /\ UNCHANGED <<appointments, now, reqs, users, regs, profiles, toggles, client>>

\* updateUserStatus with its awaits as separate steps. First the middleware:
\* authenticateToken loads the caller and checks isActive, authorizeRole and
\* the handler check the role; a request that passes is in flight
BeginStatus(caller, userId, flag) ==
    LET out ==
          IF ~authenticateToken(caller)
          THEN Response(401, "User account is deactivated")
          ELSE IF ~authorizeRole(caller, "admin")
          THEN Response(403, "Insufficient permissions")
          ELSE Response(0, "")
    IN
    /\ out.code = 0 => Len(toggles) < MaxInFlight
    /\ toggles' =
          IF out.code = 0
          THEN Append(toggles, [caller |-> caller, userId |-> userId,
                                isActive |-> flag, found |-> FALSE])
          ELSE toggles
    /\ req' = IF out.code = 0 THEN req
              ELSE [Request("status", caller) EXCEPT !.userId = userId, !.isActive = flag]
    /\ res' = IF out.code = 0 THEN res ELSE out
    /\ UNCHANGED <<appointments, isActive, now, reqs, users, regs, profiles, client>>

\* await User.findById(userId), then the checks on the document found
FindStatus(i) ==
    /\ i \in 1..Len(toggles)
    /\ ~toggles[i].found
    /\ LET t == toggles[i]
           out == IF t.userId = BadId
                  THEN Response(500, "Failed to update user status")
                  ELSE IF t.userId \notin UserIds
                  THEN Response(404, "User not found")
                  ELSE IF t.userId = t.caller
                  THEN Response(400, "Cannot deactivate your own account")
                  ELSE Response(0, "")
       IN
       /\ toggles' =
             IF out.code = 0
             THEN [toggles EXCEPT ![i].found = TRUE]
             ELSE SubSeq(toggles, 1, i - 1) \o SubSeq(toggles, i + 1, Len(toggles))
       /\ req' = IF out.code = 0 THEN req
                 ELSE [Request("status", t.caller) EXCEPT
                         !.userId = t.userId, !.isActive = t.isActive]
       /\ res' = IF out.code = 0 THEN res ELSE out
    /\ UNCHANGED <<appointments, isActive, now, reqs, users, regs, profiles, client>>

\* user.isActive = isActive; await user.save(); the 200 response
SaveStatus(i) ==
    /\ i \in 1..Len(toggles)
    /\ toggles[i].found
    /\ LET t == toggles[i] IN
       /\ isActive' = [isActive EXCEPT ![t.userId] = t.isActive]
       /\ req' = [Request("status", t.caller) EXCEPT
                     !.userId = t.userId, !.isActive = t.isActive]
       /\ res' = [Response(200, IF t.isActive THEN "User activated successfully"
                                ELSE "User deactivated successfully")
                    EXCEPT !.users = {getProfile(t.userId)}]
    /\ toggles' = SubSeq(toggles, 1, i - 1) \o SubSeq(toggles, i + 1, Len(toggles))
    /\ UNCHANGED <<appointments, now, reqs, users, regs, profiles, client>>

(* ---------------------------- changePassword --------------------------- *)

\* newPassword.length
PasswordLength(password) ==
    CASE password = NoText -> 0
      [] password = "short" -> 5
      [] password = "newpass1" -> 8
      [] OTHER -> 7

\* a handler that skips the comparison with the stored hash
ChangePasswordOutcome_NoCompare(caller, currentPassword, newPassword) ==
    IF ~authenticateToken(caller)
    THEN Response(401, "User account is deactivated")
    ELSE IF currentPassword = NoText \/ newPassword = NoText
    THEN Response(400, "Current password and new password are required")
    ELSE IF PasswordLength(newPassword) < MinPasswordLength
    THEN Response(400, "New password must be at least 6 characters long")
    ELSE Response(200, "Password changed successfully")

\* the required fields, the length of the new password, then
\* comparePassword against the hash loaded with select('+password')
ChangePasswordOutcome(caller, currentPassword, newPassword) ==
    IF ~authenticateToken(caller)
    THEN Response(401, "User account is deactivated")
    ELSE IF currentPassword = NoText \/ newPassword = NoText
    THEN Response(400, "Current password and new password are required")
    ELSE IF PasswordLength(newPassword) < MinPasswordLength
    THEN Response(400, "New password must be at least 6 characters long")
    ELSE IF ~comparePassword(currentPassword, profiles[caller].password)
    THEN Response(400, "Current password is incorrect")
    ELSE Response(200, "Password changed successfully")

\* user.password = newPassword; save() hashes the modified password
changePassword(caller, currentPassword, newPassword) ==
    LET out == ChangePasswordOutcome(caller, currentPassword, newPassword) IN
    /\ profiles' =
          IF out.code = 200
          THEN [profiles EXCEPT ![caller].password = Hash(newPassword)]
          ELSE profiles
    /\ req' = [Request("password", caller) EXCEPT
                  !.password = currentPassword, !.newPassword = newPassword]
    /\ res' = out
    /\ UNCHANGED <<appointments, isActive, now, reqs, users, regs, toggles, client>>

(* ----------------------------- registerUser ---------------------------- *)

\* new User({... email, role: role || 'patient' ...}); isActive by default
NewUser(email, role) ==
    [email |-> ToLowerCase(email),
     role |-> IF role = NoRole THEN "patient" ELSE role,
     isActive |-> TRUE]

\* userSchema validators run by save()
ValidateUser(u) ==
    /\ u.email # NoEmail
    /\ EmailMatches(u.email)
    /\ u.role \in RoleEnum

\* User.findOne({ email: email.toLowerCase() })
ExistingUser(email) ==
    \E k \in 1..Len(users) : users[k].email = ToLowerCase(email)

\* a schema whose email is not declared unique
DuplicateKey_NoUniqueIndex(u) == FALSE

\* the unique index on email (unique: true, built by autoIndex): the insert
\* of a stored address fails with E11000
DuplicateKey(u) ==
    \E k \in 1..Len(users) : users[k].email = u.email

\* registerUser up to its await of user.save(): the existence check has read
\* the collection; a request that passed it waits in regs for its save
BeginRegister(email, role) ==
    LET out ==
          IF email = NoEmail
          THEN Response(500, "Registration failed")
          ELSE IF ExistingUser(email)
          THEN Response(400, "User with this email already exists")
          ELSE Response(0, "")
    IN
    /\ out.code = 0 => Len(regs) < MaxInFlight
    /\ regs' = IF out.code = 0
               THEN Append(regs, [email |-> email, role |-> role])
               ELSE regs
    /\ req' = IF out.code = 0 THEN req
              ELSE [Request("register", NoId) EXCEPT !.email = email, !.role = role]
    /\ res' = IF out.code = 0 THEN res ELSE out
    /\ UNCHANGED <<appointments, isActive, now, reqs, users, profiles, toggles, client>>

\* user.save() of the waiting request i: validation, then the insert, which
\* the unique index may refuse; then the response
FinishRegister(i) ==
    /\ i \in 1..Len(regs)
    /\ LET u == NewUser(regs[i].email, regs[i].role)
           out == IF ~ValidateUser(u) THEN Response(400, "Validation failed")
                  ELSE IF DuplicateKey(u) THEN Response(500, "Registration failed")
                  ELSE Response(201, "User registered successfully")
       IN
       /\ out.code = 201 => Len(users) < MaxUsers
       /\ users' = IF out.code = 201 THEN Append(users, u) ELSE users
       /\ res' = IF out.code = 201
                 THEN [out EXCEPT !.users = {getProfile(u.email)},
                                  !.token = generateToken(u.email)]
                 ELSE out
    /\ regs' = SubSeq(regs, 1, i - 1) \o SubSeq(regs, i + 1, Len(regs))
    /\ req' = [Request("register", NoId) EXCEPT
                  !.email = regs[i].email, !.role = regs[i].role]
    /\ UNCHANGED <<appointments, isActive, now, reqs, profiles, toggles, client>>

(* ------------------ createAppointment, step by step -------------------- *)

\* The handler up to the answer of the pre('save') findOne: every check has
\* read the store; a request that passed them all waits in reqs for its insert.
BeginCreate(caller, bodyPatientId, doctorId, date, time) ==
    LET out == CreateOutcome(caller, bodyPatientId, doctorId, date, time,
                             NoText, NoText, NoDuration, FALSE)
    IN
    /\ out.code = 201 => Len(reqs) < MaxInFlight
    /\ reqs' =
          IF out.code = 201
          THEN Append(reqs, NewAppointment(caller, bodyPatientId, doctorId, date, time,
                                           NoText, NoText, NoDuration, FALSE))
          ELSE reqs
    /\ req' = IF out.code = 201
              THEN req
              ELSE [Request("create", caller) EXCEPT
                      !.patientId = bodyPatientId, !.doctorId = doctorId,
                      !.date = date, !.time = time]
    /\ res' = IF out.code = 201 THEN res ELSE out
    /\ UNCHANGED <<appointments, isActive, now, users, regs, profiles, toggles, client>>

\* next() of the hook: the insert, then the 201 response
FinishCreate(i) ==
    /\ i \in 1..Len(reqs)
    /\ Len(appointments) < MaxAppts
    /\ appointments' = Append(appointments, reqs[i])
    /\ reqs' = SubSeq(reqs, 1, i - 1) \o SubSeq(reqs, i + 1, Len(reqs))
    /\ req' = [Request("create", reqs[i].patientId) EXCEPT
                  !.doctorId = reqs[i].doctorId, !.date = reqs[i].date,
                  !.time = reqs[i].time]
    /\ res' = [Response(201, "Appointment created successfully")
                 EXCEPT !.users = Populated(reqs[i])]
    /\ UNCHANGED <<isActive, now, users, regs, profiles, toggles, client>>

(* -------------------------------- clock -------------------------------- *)

Tick ==
    /\ now < MaxNow
    /\ now' = now + 1
    /\ UNCHANGED <<appointments, isActive, req, res, reqs, users, regs, profiles, toggles, client>>

(* ---------------------------- specification ---------------------------- *)

Init ==
    /\ appointments = <<>>
    /\ isActive = [u \in UserIds |-> u # "d3"]
    /\ now = StartNow
    /\ req = Request("none", NoId)
    /\ res = Response(0, "")
    /\ reqs = <<>>
    /\ users = <<>>
    /\ regs = <<>>
    /\ profiles = [u \in UserIds |-> InitialProfile(u)]
    /\ toggles = <<>>
    /\ client = Unmounted

Next ==
    \/ \E r \in CreateRequests :
          createAppointment(r[1], r[2], r[3], r[4], r[5],
                            NoText, NoText, NoDuration, FALSE)
    \/ \E r \in UpdateRequests : updateAppointmentStatus(r[1], r[2], r[3])
    \/ \E r \in CancelRequests : cancelAppointment(r[1], r[2])
    \/ Tick

Spec == Init /\ [][Next]_vars

\* the read handlers over the stores that bookings and cancellations build
NextRead ==
    \/ \E r \in CreateRequests :
          createAppointment(r[1], r[2], r[3], r[4], r[5],
                            NoText, NoText, NoDuration, FALSE)
    \/ \E r \in CancelRequests : cancelAppointment(r[1], r[2])
    \/ \E r \in GetRequests : getAppointmentById(r[1], r[2])
    \/ \E r \in ListRequests : getAppointments(r[1], r[2], r[3], r[4], r[5])

SpecRead == Init /\ [][NextRead]_vars

\* bookings carrying the optional body fields, and the status changes that
\* follow them
NextFields ==
    \/ \E r \in FieldRequests :
          createAppointment(r[1], r[2], r[3], r[4], r[5], r[6], r[7], r[8], r[9])
    \/ \E r \in FieldUpdateRequests : updateAppointmentStatus(r[1], r[2], r[3])
    \/ \E r \in CancelRequests : cancelAppointment(r[1], r[2])
    \/ Tick

SpecFields == Init /\ [][NextFields]_vars

\* createAppointment with its awaits as separate steps, requests interleaving
NextConc ==
    \/ \E r \in CreateRequests : BeginCreate(r[1], r[2], r[3], r[4], r[5])
    \/ \E i \in 1..MaxInFlight : FinishCreate(i)

SpecConc == Init /\ [][NextConc]_vars

\* interleaved bookings followed by status updates and cancellations
NextDuplicates ==
    \/ \E r \in DuplicateCreateRequests : BeginCreate(r[1], r[2], r[3], r[4], r[5])
    \/ \E i \in 1..MaxInFlight : FinishCreate(i)
    \/ \E r \in DuplicateUpdateRequests : updateAppointmentStatus(r[1], r[2], r[3])
    \/ \E r \in DuplicateCancelRequests : cancelAppointment(r[1], r[2])
    \/ Tick

SpecDuplicates == Init /\ [][NextDuplicates]_vars

\* the activation toggle, and bookings made between its requests
NextStatus ==
    \/ \E r \in StatusRequests : updateUserStatus(r[1], r[2], r[3])
    \/ \E r \in StatusCreateRequests :
          createAppointment(r[1], r[2], r[3], r[4], r[5],
                            NoText, NoText, NoDuration, FALSE)

SpecStatus == Init /\ [][NextStatus]_vars

\* activation toggles interleaving at their awaits
NextToggle ==
    \/ \E r \in ToggleRequests : BeginStatus(r[1], r[2], r[3])
    \/ \E i \in 1..MaxInFlight : FindStatus(i)
    \/ \E i \in 1..MaxInFlight : SaveStatus(i)

SpecToggle == Init /\ [][NextToggle]_vars

\* requests and logins of identities that an admin deactivates and
\* reactivates
NextDeactivated ==
    \/ \E r \in DeactivationRequests : updateUserStatus(r[1], r[2], r[3])
    \/ \E r \in DeactivatedLoginRequests : loginUser(r[1], r[2])
    \/ \E c \in DeactivatedCallers : getCurrentUser(c)
    \/ \E c \in DeactivatedCallers : changePassword(c, InitialPassword, "newpass1")
    \/ \E c \in DeactivatedCallers :
          createAppointment(c, NoId, "d3", HoursPerDay, "03:00",
                            NoText, NoText, NoDuration, FALSE)
    \/ \E c \in DeactivatedCallers : updateAppointmentStatus(c, 1, "confirmed")
    \/ \E c \in DeactivatedCallers : cancelAppointment(c, 1)
    \/ \E c \in DeactivatedCallers : getAppointmentById(c, 1)
    \/ \E c \in DeactivatedCallers :
          updateUserProfile(c, NoId, "Ann", "555", NoText, NoExtras)

SpecDeactivated == Init /\ [][NextDeactivated]_vars

\* the AuthProvider of one browser tab
NextClient ==
    \/ \E t \in StoredTokens : Mount(t)
    \/ \E u \in ClientUsers : login(getProfile(u), generateToken(u))
    \/ logout
    \/ \E i \in 1..MaxFetches : FetchSucceeds(i)
    \/ \E i \in 1..MaxFetches : FetchFails(i)

SpecClient == Init /\ [][NextClient]_vars

\* password changes and the logins that follow them
NextPassword ==
    \/ \E r \in ChangePasswordRequests : changePassword(r[1], r[2], r[3])
    \/ \E r \in PasswordLoginRequests : loginUser(r[1], r[2])

SpecPassword == Init /\ [][NextPassword]_vars

\* profile reads and updates, and the list of all identities
NextProfile ==
    \/ \E r \in ProfileRequests : getUserProfile(r[1], r[2])
    \/ \E r \in UpdateProfileRequests :
          updateUserProfile(r[1], r[2], r[3][1], r[3][2], r[3][3], r[4])
    \/ \E r \in AllUsersRequests : getAllUsers(r[1], r[2])

SpecProfile == Init /\ [][NextProfile]_vars

\* every operation that answers with user data
NextResponses ==
    \/ \E r \in ResponseRegisterRequests : BeginRegister(r[1], r[2])
    \/ \E i \in 1..MaxInFlight : FinishRegister(i)
    \/ \E r \in LoginRequests : loginUser(r[1], r[2])
    \/ \E c \in ResponseCallers : getCurrentUser(c)
    \/ \E c \in ResponseCallers : getUserProfile(c, NoId)
    \/ \E r \in ResponseProfileUpdates :
          updateUserProfile(r[1], r[2], r[3][1], r[3][2], r[3][3], r[4])
    \/ \E c \in ResponseCallers : getAllUsers(c, NoRole)
    \/ \E r \in ResponseStatusRequests : updateUserStatus(r[1], r[2], r[3])
    \/ \E c \in ResponseCallers : getDoctors(c)
    \/ \E c \in ResponseCallers : getAvailableDoctors(c)
    \/ \E r \in ResponseCreateRequests :
          createAppointment(r[1], r[2], r[3], r[4], r[5],
                            NoText, NoText, NoDuration, FALSE)
    \/ \E r \in ResponseUpdateRequests : updateAppointmentStatus(r[1], r[2], r[3])
    \/ \E c \in ResponseCallers :
          getAppointments(c, NoStatus, NoDate, NoParam, NoParam)
    \/ \E c \in ResponseCallers : getAppointmentById(c, 1)

SpecResponses == Init /\ [][NextResponses]_vars

\* registerUser with its awaits as separate steps, requests interleaving
NextRegister ==
    \/ \E r \in RegisterRequests : BeginRegister(r[1], r[2])
    \/ \E i \in 1..MaxInFlight : FinishRegister(i)

SpecRegister == Init /\ [][NextRegister]_vars

(* ======================================================================= *)
(* Claims                                                                  *)
(* ======================================================================= *)

SameSlot(a, b) ==
    a.doctorId = b.doctorId /\ a.date = b.date /\ a.time = b.time

Live(a) == a.status # "cancelled"

Terminal(st) == st \in {"cancelled", "completed"}

TooLate == "Appointment cannot be cancelled (less than 2 hours away)"

\* the caller owns the appointment (as its patient or its doctor) or is an admin
OwnerOrAdmin(c, a) ==
    \/ RoleOf(c) = "patient" /\ a.patientId = c
    \/ RoleOf(c) = "doctor" /\ a.doctorId = c
    \/ RoleOf(c) = "admin"

\* the step handles a request of handler op for a stored appointment, made
\* with the token of an active identity
Handles(op) ==
    /\ req' # req \/ res' # res \/ appointments' # appointments
    /\ req'.op = op
    /\ isActive[req'.caller]
    /\ req'.id \in ApptIds

\* C1: with requests executed one at a time, no two non-cancelled
\* appointments share the same (doctorId, date, time), also after a cancelled
\* appointment is set back to a live status once its slot was rebooked.
C1_NoDoubleBooking ==
    \A i \in ApptIds : \A j \in ApptIds :
        (i # j /\ SameSlot(appointments[i], appointments[j]))
            => ~(Live(appointments[i]) /\ Live(appointments[j]))

\* C1 witness: a cancelled appointment whose slot was rebooked, and the
\* request setting it back to a live status was just refused by the hook
\* (the appointment's date is still in the future, so validation passed).
C1_Witness ==
    /\ req.op = "update"
    /\ req.status = "pending"
    /\ res.code = 500
    /\ req.id \in ApptIds
    /\ ~Live(appointments[req.id])
    /\ DateValidator(appointments[req.id].date)
    /\ \E j \in ApptIds :
          /\ j # req.id
          /\ SameSlot(appointments[req.id], appointments[j])
          /\ Live(appointments[j])

\* C2: when creations of one slot interleave (conflict query and insert being
\* separate steps), at no instant do two non-cancelled appointments exist
\* for the slot.
C2_NoDoubleBookingConcurrent ==
    \A i \in ApptIds : \A j \in ApptIds :
        (i # j /\ Live(appointments[i]) /\ Live(appointments[j]))
            => ~SameSlot(appointments[i], appointments[j])

\* C3: once an appointment's status is cancelled or completed, no request
\* changes it to a different value.
C3_TerminalStatusIsFinal ==
    [][\A i \in ApptIds :
          Terminal(appointments[i].status)
              => appointments'[i].status = appointments[i].status]_vars

\* C4: no request of a non-admin caller (cancelAppointment, or
\* updateAppointmentStatus with status cancelled) changes an appointment's
\* status to cancelled when the current time is 2 hours or less before its
\* start; and the change to cancelled is only made for the owning patient,
\* the owning doctor or an admin.
C4_NoLateCancelByNonAdmin ==
    [][\A i \in ApptIds :
          ( /\ appointments[i].status # "cancelled"
            /\ appointments'[i].status = "cancelled" )
          => /\ OwnerOrAdmin(req'.caller, appointments[i])
             /\ RoleOf(req'.caller) # "admin"
                   => canBeCancelled(appointments[i])]_vars

\* C5: cancelAppointment by the owning patient, the owning doctor or an admin
\* succeeds and sets the status to cancelled when the start is more than 2
\* hours away; by a non-admin owner within 2 hours of the start it fails with
\* the timing error (400) and leaves the status unchanged.
C5_CancelByCutoff ==
    [][( /\ Handles("cancel")
         /\ OwnerOrAdmin(req'.caller, appointments[req'.id]) )
       => IF canBeCancelled(appointments[req'.id])
          THEN /\ res'.code = 200
               /\ appointments'[req'.id].status = "cancelled"
          ELSE RoleOf(req'.caller) # "admin"
                  => /\ res'.code = 400
                     /\ res'.msg = TooLate
                     /\ appointments'[req'.id].status
                           = appointments[req'.id].status]_vars

\* C6 (as claimed): cancelAppointment by an admin succeeds and sets the status
\* to cancelled even when the appointment starts within 2 hours.
C6_AdminBypassesCutoff ==
    [][( /\ Handles("cancel")
         /\ RoleOf(req'.caller) = "admin"
         /\ ~canBeCancelled(appointments[req'.id]) )
       => /\ res'.code = 200
          /\ appointments'[req'.id].status = "cancelled"]_vars

\* C6 (amended): cancelAppointment by an admin for an appointment starting
\* within 2 hours fails with the timing error (400) and changes nothing: the
\* cutoff of cancelAppointment applies to admin callers too.
C6_AdminCutoffApplies ==
    [][( /\ Handles("cancel")
         /\ RoleOf(req'.caller) = "admin"
         /\ ~canBeCancelled(appointments[req'.id]) )
       => /\ res'.code = 400
          /\ res'.msg = TooLate
          /\ appointments' = appointments]_vars

\* C6 witness: an admin's cancelAppointment of a live appointment within 2
\* hours of its start has just been answered.
C6_Witness ==
    /\ req.op = "cancel"
    /\ RoleOf(req.caller) = "admin"
    /\ req.id \in ApptIds
    /\ ~canBeCancelled(appointments[req.id])
    /\ Live(appointments[req.id])

\* the booking request passes every check before the conflict guard
WellFormedBooking(r) ==
    /\ isActive[r.caller]
    /\ RoleOf(r.caller) = "patient"
    /\ r.doctorId \in Doctors
    /\ isActive[r.doctorId]
    /\ r.date # NoDate
    /\ r.date > now
    /\ TimeMatches(r.time)

\* the appointment is in the slot the request asks for
InSlotOf(a, r) ==
    a.doctorId = r.doctorId /\ a.date = r.date /\ a.time = r.time

\* the step appends exactly one appointment to the store
Appended ==
    /\ Len(appointments') = Len(appointments) + 1
    /\ SubSeq(appointments', 1, Len(appointments)) = appointments

\* C7: once the appointment occupying a slot is cancelled (no live appointment
\* holds the slot any more), createAppointment by any patient for that slot
\* succeeds with status pending; while a live appointment holds the slot the
\* same request fails with the conflict error and stores nothing.
C7_FreedSlotCanBeRebooked ==
    [][( /\ req' # req \/ res' # res \/ appointments' # appointments
         /\ req'.op = "create"
         /\ WellFormedBooking(req')
         /\ \E i \in ApptIds : InSlotOf(appointments[i], req') )
       => IF \E i \in ApptIds :
                InSlotOf(appointments[i], req') /\ Live(appointments[i])
          THEN /\ res'.code = 400
               /\ res'.msg = SlotBooked
               /\ appointments' = appointments
          ELSE /\ res'.code = 201
               /\ Appended
               /\ InSlotOf(appointments'[Len(appointments')], req')
               /\ appointments'[Len(appointments')].status = "pending"]_vars

\* C7 witness: p2 has just booked, as pending, the slot of an appointment of
\* p1 that is cancelled.
C7_Witness ==
    /\ req.op = "create"
    /\ req.caller = "p2"
    /\ res.code = 201
    /\ Len(appointments) >= 2
    /\ LET new == appointments[Len(appointments)] IN
          /\ new.patientId = "p2"
          /\ new.status = "pending"
          /\ InSlotOf(new, req)
          /\ \E i \in 1..(Len(appointments) - 1) :
                /\ SameSlot(appointments[i], new)
                /\ appointments[i].patientId = "p1"
                /\ appointments[i].status = "cancelled"

Range(seq) == {seq[k] : k \in 1..Len(seq)}

\* the appointments of the caller's scope: a patient's own, a doctor's own,
\* all of them for an admin
Scoped(c) == {i \in ApptIds : OwnerOrAdmin(c, appointments[i])}

\* what the caller collects by asking for every page of the unfiltered list
AllPages(c, limit) ==
    UNION {Range(PageOf(c, NoStatus, NoDate, limit, p)) :
              p \in 1..TotalPages(c, NoStatus, NoDate, limit)}

C9_OnlyPatientsCreateForSelf ==
    [][ /\ ( /\ req' # req \/ res' # res
             /\ req'.op = "create"
             /\ isActive[req'.caller]
             /\ RoleOf(req'.caller) # "patient" )
           => (res'.code = 403 /\ appointments' = appointments)
        /\ Len(appointments') # Len(appointments)
           => /\ req'.op = "create"
              /\ RoleOf(req'.caller) = "patient"
              /\ Appended
              /\ appointments'[Len(appointments')].patientId = req'.caller
              /\ appointments'[Len(appointments')].status = "pending" ]_vars

\* C9 witness: a patient's booking that names another patient in its body
\* has just been stored.
C9_Witness ==
    /\ req.op = "create"
    /\ req.patientId \in Patients
    /\ req.patientId # req.caller
    /\ res.code = 201
    /\ appointments # <<>>

\* the caller is a patient or a doctor who does not own the appointment
NonOwner(c, a) == ~OwnerOrAdmin(c, a)

\* C10 (as claimed): updateAppointmentStatus and cancelAppointment by a
\* patient or doctor who does not own the appointment fail with 403 and
\* change nothing.
C10_NonOwnerGets403 ==
    [][( /\ Handles("update") \/ Handles("cancel")
         /\ NonOwner(req'.caller, appointments[req'.id]) )
       => (res'.code = 403 /\ appointments' = appointments)]_vars

\* C10 (amended): cancelAppointment, and updateAppointmentStatus with one of
\* the four status values, by a patient or doctor who does not own the
\* appointment fail with 403; updateAppointmentStatus with any other status
\* value fails with 400 before ownership is looked at; in each case nothing
\* changes.  No request of an admin for a stored appointment is answered 403.
C10_NonOwnerIsRefused ==
    [][ /\ ( /\ Handles("update") \/ Handles("cancel")
             /\ NonOwner(req'.caller, appointments[req'.id]) )
           => /\ res'.code =
                    IF req'.op = "update" /\ req'.status \notin StatusEnum
                    THEN 400 ELSE 403
              /\ appointments' = appointments
        /\ ( /\ Handles("update") \/ Handles("cancel")
             /\ RoleOf(req'.caller) = "admin" )
           => res'.code # 403 ]_vars

\* C10 witness: a doctor's updateAppointmentStatus, with a valid status, for
\* an appointment of another doctor has just been refused with 403.
C10_Witness ==
    /\ req.op = "update"
    /\ req.status \in StatusEnum
    /\ RoleOf(req.caller) = "doctor"
    /\ req.id \in ApptIds
    /\ appointments[req.id].doctorId # req.caller
    /\ res.code = 403

\* C11: for every non-admin caller, each of getAppointmentById,
\* updateAppointmentStatus and cancelAppointment answers a request for a
\* stored appointment outside the caller's scope exactly as it answers a
\* request for an id that is not stored.
C11_NoExistenceLeak ==
    \A c \in ActiveCallers \ Admins : \A i \in ApptIds :
        ~RoleFilter(c, appointments[i])
        => LET absent == Len(appointments) + 1 IN
           /\ GetOutcome(c, i) = GetOutcome(c, absent)
           /\ CancelOutcome(c, i) = CancelOutcome(c, absent)
           /\ \A s \in StatusInputs :
                 UpdateOutcome(c, i, s) = UpdateOutcome(c, absent, s)

\* the step handles a createAppointment request
HandlesCreate ==
    /\ req' # req \/ res' # res \/ appointments' # appointments
    /\ req'.op = "create"

\* the request supplies a duration outside [15, 120]
DurationOutOfRange(r) ==
    /\ r.duration # NoDuration
    /\ r.duration < MinDuration \/ r.duration > MaxDuration

\* no live appointment holds the slot the request asks for
SlotFree(r) ==
    ~\E i \in ApptIds : InSlotOf(appointments[i], r) /\ Live(appointments[i])

\* C12: createAppointment rejects with a validation error (400), storing
\* nothing, every request whose duration is outside [15, 120], 0 and negative
\* values included; it accepts durations 15 and 120; every stored appointment
\* has 15 <= duration <= 120, and its duration is the requested one whenever
\* the request supplied one.
C12_DurationWithinLimits ==
    [][HandlesCreate =>
        /\ (WellFormedBooking(req') /\ DurationOutOfRange(req'))
              => (res'.code = 400 /\ appointments' = appointments)
        /\ ( /\ WellFormedBooking(req')
             /\ SlotFree(req')
             /\ req'.duration \in {MinDuration, MaxDuration} )
              => (res'.code = 201 /\ Appended)
        /\ Len(appointments') # Len(appointments)
              => /\ Appended
                 /\ appointments'[Len(appointments')].duration >= MinDuration
                 /\ appointments'[Len(appointments')].duration <= MaxDuration
                 /\ req'.duration # NoDuration
                       => appointments'[Len(appointments')].duration = req'.duration
      ]_vars

\* C13: createAppointment never stores an appointment whose start instant
\* (its date combined with its time field) is at or before the instant of the
\* request.
C13_StartInFuture ==
    [][(HandlesCreate /\ Len(appointments') # Len(appointments))
          => AppointmentDateTime(appointments'[Len(appointments')]) > now]_vars

\* the request's date is in the past (or the present instant)
PastDate(r) == r.date # NoDate /\ r.date <= now

PastDateError == "Appointment date cannot be in the past"

\* C14 (as claimed): a createAppointment request whose date is in the past
\* fails with a validation error (400) and stores nothing, whoever the caller
\* is and whatever the other fields are.
C14_PastDateFailsValidation ==
    [][(HandlesCreate /\ PastDate(req'))
          => (res'.code = 400 /\ appointments' = appointments)]_vars

\* C14 (amended): a createAppointment request whose date is in the past
\* always fails and stores nothing; the failure is the validation error (400,
\* date cannot be in the past) when the caller is an active patient, time is
\* supplied and doctorId resolves to an active doctor, and otherwise the
\* error of the first earlier check that fails: 401 for a deactivated
\* caller, 403 for a doctor or admin, 400 for a missing field, 500 for a
\* doctorId that is not a well-formed id, 404 for one that resolves to no
\* active doctor.
C14_PastDateAlwaysFails ==
    [][(HandlesCreate /\ PastDate(req'))
          => /\ appointments' = appointments
             /\ res'.code =
                   IF ~isActive[req'.caller] THEN 401
                   ELSE IF RoleOf(req'.caller) # "patient" THEN 403
                   ELSE IF req'.doctorId = NoId \/ req'.time = NoTime THEN 400
                   ELSE IF req'.doctorId = BadId THEN 500
                   ELSE IF ~(req'.doctorId \in Doctors /\ isActive[req'.doctorId])
                   THEN 404
                   ELSE 400
             /\ WellFormedBooking([req' EXCEPT !.date = now + 1])
                   => res'.msg = PastDateError]_vars

\* C14 witness: a patient's request with a date of the day before and a
\* doctorId that no identity has was just answered 404, and nothing is stored.
C14_Witness ==
    /\ req.op = "create"
    /\ RoleOf(req.caller) = "patient"
    /\ req.date = 0
    /\ PastDate(req)
    /\ req.doctorId = UnknownId
    /\ res.code = 404
    /\ appointments = <<>>

\* another live appointment holds the slot of appointment i
SlotHeldByOther(i) ==
    \E j \in ApptIds :
        /\ j # i
        /\ SameSlot(appointments[i], appointments[j])
        /\ Live(appointments[j])

\* the save of the step is rejected by the conflict guard: the request passed
\* every check of its handler and the schema validation, and another live
\* appointment holds the slot of the saved document
ConflictRejected ==
    \/ /\ HandlesCreate
       /\ WellFormedBooking(req')
       /\ ~DurationOutOfRange(req')
       /\ ~SlotFree(req')
    \/ /\ Handles("update")
       /\ req'.status \in StatusEnum
       /\ OwnerOrAdmin(req'.caller, appointments[req'.id])
       /\ DateValidator(appointments[req'.id].date)
       /\ SlotHeldByOther(req'.id)
    \/ /\ Handles("cancel")
       /\ OwnerOrAdmin(req'.caller, appointments[req'.id])
       /\ canBeCancelled(appointments[req'.id])
       /\ DateValidator(appointments[req'.id].date)
       /\ SlotHeldByOther(req'.id)

\* C15: whenever the conflict guard rejects a save (in createAppointment, and
\* in updateAppointmentStatus or cancelAppointment when another live
\* appointment holds the saved appointment's slot), the caller receives the
\* conflict error with status 400 and no appointment is changed.
C15_ConflictIs400 ==
    [][ConflictRejected
          => /\ res'.code = 400
             /\ res'.msg = SlotBooked
             /\ appointments' = appointments]_vars

\* C16: updateAppointmentStatus with a target status outside the four enum
\* values fails with 400 and leaves the appointment unchanged; with a target
\* equal to the appointment's current status, sent by its owner or an admin,
\* it succeeds and leaves the appointment unchanged.
C16_InvalidAndSameStatus ==
    [][Handles("update")
          => /\ req'.status \notin StatusEnum
                => (res'.code = 400 /\ appointments' = appointments)
             /\ ( /\ OwnerOrAdmin(req'.caller, appointments[req'.id])
                  /\ req'.status = appointments[req'.id].status )
                => (res'.code = 200 /\ appointments' = appointments)]_vars

\* C17: a successful updateAppointmentStatus or cancelAppointment changes
\* only the status of the targeted appointment: its patientId, doctorId, date,
\* time, duration, notes, symptoms, isUrgent and createdAt, every other
\* appointment and every identity are unchanged.
C17_OnlyStatusChanges ==
    [][( /\ Handles("update") \/ Handles("cancel")
         /\ res'.code = 200 )
       => /\ Len(appointments') = Len(appointments)
          /\ \A j \in ApptIds :
                j # req'.id => appointments'[j] = appointments[j]
          /\ LET old == appointments[req'.id]
                 new == appointments'[req'.id]
             IN  /\ new.patientId = old.patientId
                 /\ new.doctorId = old.doctorId
                 /\ new.date = old.date
                 /\ new.time = old.time
                 /\ new.duration = old.duration
                 /\ new.notes = old.notes
                 /\ new.symptoms = old.symptoms
                 /\ new.isUrgent = old.isUrgent
                 /\ new.createdAt = old.createdAt
                 /\ new.status = IF req'.op = "cancel" THEN "cancelled"
                                 ELSE req'.status
          /\ isActive' = isActive]_vars

\* C17 witness: of two stored appointments, the first, booked with notes,
\* symptoms, the urgent flag and the default duration, has just been
\* cancelled by cancelAppointment and still carries them.
C17_Witness ==
    /\ req.op = "cancel"
    /\ res.code = 200
    /\ req.id = 1
    /\ Len(appointments) = 2
    /\ appointments[1].status = "cancelled"
    /\ appointments[1].notes = "fever"
    /\ appointments[1].symptoms = "cough"
    /\ appointments[1].isUrgent
    /\ appointments[1].duration = DefaultDuration
    /\ appointments[2].status # "cancelled"

\* doctorId names an identity with role doctor and isActive = true
ResolvesToActiveDoctor(id) == id \in Doctors /\ isActive[id]

\* the request reaches the doctor lookup: an active patient's request with
\* doctorId, date and time supplied
ReachesDoctorLookup(r) ==
    /\ isActive[r.caller]
    /\ RoleOf(r.caller) = "patient"
    /\ r.doctorId # NoId
    /\ r.date # NoDate
    /\ r.time # NoTime

C19_EmailUnique ==
    [][ /\ \A i \in 1..Len(users') : \A j \in 1..Len(users') :
              i # j => ToLowerCase(users'[i].email) # ToLowerCase(users'[j].email)
        /\ (req'.op = "register" /\ res'.code # 201) => users' = users ]_vars

\* C19 witness: two requests for one address in different letter case both
\* passed the existence check; one was stored and the other has just been
\* refused by the insert.
C19_Witness ==
    /\ req.op = "register"
    /\ req.email = "ANN@x.io"
    /\ res.code = 500
    /\ \E k \in 1..Len(users) : users[k].email = "ann@x.io"

\* the step handles an updateUserStatus request
HandlesStatus ==
    /\ req' # req \/ res' # res \/ isActive' # isActive
    /\ req'.op = "status"

\* C20: updateUserStatus changes an isActive flag only when the caller is an
\* admin (an authenticated caller of another role gets 403) and never
\* changes the caller's own flag: a request whose target is the caller is
\* rejected and leaves the flag unchanged.
C20_AdminOnlyNeverSelf ==
    [][ /\ isActive' # isActive
           => /\ HandlesStatus
              /\ RoleOf(req'.caller) = "admin"
              /\ isActive[req'.caller]
              /\ req'.userId # req'.caller
              /\ \A u \in UserIds :
                    u # req'.userId => isActive'[u] = isActive[u]
        /\ (HandlesStatus /\ isActive[req'.caller])
           => /\ RoleOf(req'.caller) # "admin"
                 => (res'.code = 403 /\ isActive' = isActive)
              /\ req'.userId = req'.caller
                 => (res'.code \in {400, 403} /\ isActive' = isActive)
              /\ isActive'[req'.caller] ]_vars

\* C20 witness: an admin who has deactivated the other admin has just been
\* refused (400) the deactivation of their own account and is still active.
C20_Witness ==
    /\ req.op = "status"
    /\ RoleOf(req.caller) = "admin"
    /\ req.userId = req.caller
    /\ ~req.isActive
    /\ res.code = 400
    /\ isActive[req.caller]
    /\ \E a \in Admins : ~isActive[a]

\* the step handles a request of the profile handler op
HandlesProfile(op) ==
    /\ req' # req \/ res' # res \/ profiles' # profiles
    /\ req'.op = op
    /\ isActive[req'.caller]

\* C21: getUserProfile and updateUserProfile of a non-admin caller targeting
\* another identity fail with 403 and change nothing; what a non-admin reads
\* is their own profile; getAllUsers is refused (403) for every non-admin
\* caller; updateUserProfile changes only name, phone and specialization of
\* its target, never email, role, password or isActive.
C21_OwnProfileOnly ==
    [][ /\ ( /\ HandlesProfile("profile") \/ HandlesProfile("updateProfile")
             /\ RoleOf(req'.caller) # "admin" )
           => /\ TargetOf(req'.caller, req'.userId) # req'.caller
                 => (res'.code = 403 /\ res'.users = {} /\ profiles' = profiles)
              /\ \A o \in res'.users : o.id = req'.caller
              /\ \A u \in UserIds : u # req'.caller => profiles'[u] = profiles[u]
        /\ (HandlesProfile("allUsers") /\ RoleOf(req'.caller) # "admin")
           => (res'.code = 403 /\ res'.users = {})
        /\ profiles' # profiles
           => /\ req'.op = "updateProfile"
              /\ res'.code = 200
              /\ \A u \in UserIds :
                    /\ u # TargetOf(req'.caller, req'.userId)
                          => profiles'[u] = profiles[u]
                    /\ profiles'[u].email = profiles[u].email
                    /\ profiles'[u].role = profiles[u].role
                    /\ profiles'[u].password = profiles[u].password
        /\ req'.op \in {"profile", "updateProfile", "allUsers"}
           => isActive' = isActive ]_vars

\* C21 witness: a patient whose own profile was updated has just been refused
\* (403) an update of another identity's profile, the body naming role admin.
C21_Witness ==
    /\ req.op = "updateProfile"
    /\ req.caller = "p1"
    /\ req.userId = "p2"
    /\ req.role = "admin"
    /\ res.code = 403
    /\ profiles["p1"].name = "Ann"
    /\ profiles["p2"] = InitialProfile("p2")

\* C22: no response of any operation carries a user's password or password
\* hash: neither a user object returned nor the token does.
C22_NoPasswordInResponses ==
    /\ \A o \in res.users : "password" \notin o.fields
    /\ "password" \notin res.token.fields

\* C22 witness: loginUser, which loads the document with its password, has
\* just answered a successful login with the profile and a token, after the
\* identity's profile was updated with a body that carried a password.
C22_Witness ==
    /\ req.op = "login"
    /\ res.code = 200
    /\ res.token.id = "p1"
    /\ res.users = {getProfile("p1")}
    /\ profiles["p1"].name = "Ann"
    /\ appointments # <<>>
    /\ users # <<>>

\* C23: no two non-cancelled appointments of the same doctor on the same
\* date have overlapping intervals [time, time + duration): a booking whose
\* interval overlaps a live appointment of the doctor is rejected also when
\* its start time differs.
C23_NoOverlap ==
    \A i \in ApptIds : \A j \in ApptIds :
        ( /\ i # j
          /\ Live(appointments[i])
          /\ Live(appointments[j])
          /\ appointments[i].doctorId = appointments[j].doctorId
          /\ appointments[i].date = appointments[j].date )
        => ~doTimeSlotsOverlap(appointments[i].time, appointments[i].duration,
                               appointments[j].time, appointments[j].duration)

\* C24: an appointment's status follows the lifecycle order: it becomes
\* completed only from confirmed, it becomes confirmed only from pending,
\* and it never becomes pending again after leaving it.
C24_LifecycleOrder ==
    [][\A i \in ApptIds :
          appointments'[i].status # appointments[i].status
          => /\ appointments'[i].status = "completed"
                => appointments[i].status = "confirmed"
             /\ appointments'[i].status = "confirmed"
                => appointments[i].status = "pending"
             /\ appointments'[i].status # "pending"]_vars

\* C25: registration never creates an identity with role admin: every
\* registered user has role patient or doctor, so nobody becomes an admin
\* by registering.
C25_NoAdminByRegistration ==
    \A i \in 1..Len(users) : users[i].role \in {"patient", "doctor"}

\* appointments i and j are distinct, not cancelled, and in the same slot
Duplicates(store, i, j) ==
    /\ i # j
    /\ Live(store[i]) /\ Live(store[j])
    /\ SameSlot(store[i], store[j])

\* C26: once two non-cancelled appointments share a (doctor, date, time),
\* every updateAppointmentStatus or cancelAppointment on either of them is
\* refused and changes nothing (500 from the failed save when the handler's
\* own checks pass), and the two stay double-booked in the next state.
C26_DuplicatePersists ==
    [][\A i, j \in ApptIds :
          Duplicates(appointments, i, j)
          => /\ Duplicates(appointments', i, j)
             /\ (Handles("update") \/ Handles("cancel")) /\ req'.id \in {i, j}
                => /\ res'.code \in {400, 401, 403, 500}
                   /\ appointments' = appointments
                   /\ (/\ OwnerOrAdmin(req'.caller, appointments[req'.id])
                       /\ Handles("cancel") => canBeCancelled(appointments[req'.id]))
                      => res'.code = 500]_vars

\* a cancellation by the owner, in time, of one of two double-booked
\* appointments has been answered 500
C26_Witness ==
    /\ req.op = "cancel"
    /\ res.code = 500
    /\ \E i, j \in ApptIds :
          /\ Duplicates(appointments, i, j)
          /\ req.id = i
          /\ req.caller = appointments[i].patientId
          /\ canBeCancelled(appointments[i])

\* C27: whatever the interleaving of updateUserStatus requests, at least one
\* admin is active in every state.
C27_ActiveAdminRemains ==
    \E a \in Admins : isActive[a]

\* the step handles a changePassword request of an active caller
HandlesPassword ==
    /\ req' # req \/ res' # res \/ profiles' # profiles
    /\ req'.op = "password"
    /\ isActive[req'.caller]

\* the step answers 200 to caller c changing the password from old to new
Changes(c, old, new) ==
    /\ HandlesPassword
    /\ res'.code = 200
    /\ req'.caller = c /\ req'.password = old /\ req'.newPassword = new

\* C29 as stated: after every successful changePassword, loginUser succeeds
\* with the new password and fails with the one that was current.
C29_OldPasswordFails ==
    [][\A c \in UserIds, old, new \in PasswordInputs :
          Changes(c, old, new)
          => /\ LoginOutcome(EmailOf(c), new)'.code = 200
             /\ LoginOutcome(EmailOf(c), old)'.code = 401]_vars

\* C29: changePassword changes nothing but the caller's own password hash;
\* a current password that does not match, or a new password shorter than 6
\* characters, is answered 400 and stores nothing; after a 200 the stored
\* hash is that of the new password, loginUser succeeds with the new password
\* and, when the new password differs from the old one, fails with the old.
C29_ChangePassword ==
    [][/\ HandlesPassword
          => /\ \A u \in UserIds \ {req'.caller} : profiles'[u] = profiles[u]
             /\ \A u \in UserIds :
                   profiles'[u] = [profiles[u] EXCEPT !.password = profiles'[u].password]
             /\ (\/ ~comparePassword(req'.password, profiles[req'.caller].password)
                 \/ PasswordLength(req'.newPassword) < MinPasswordLength)
                => res'.code = 400 /\ profiles' = profiles
             /\ res'.code \in {200, 400}
       /\ \A c \in UserIds, old, new \in PasswordInputs :
             Changes(c, old, new)
             => /\ comparePassword(old, profiles[c].password)
                /\ profiles'[c].password = Hash(new)
                /\ LoginOutcome(EmailOf(c), new)'.code = 200
                /\ new # old => LoginOutcome(EmailOf(c), old)'.code = 401]_vars

\* a password has been changed to a different one
C29_Witness ==
    /\ req.op = "password"
    /\ res.code = 200
    /\ req.newPassword # req.password
    /\ profiles[req.caller].password = Hash(req.newPassword)
    /\ profiles[req.caller].password # Hash(InitialPassword)

\* the stores the handlers write
Stores == <<appointments, isActive, profiles, users>>

\* the step handles a request
HandlesRequest ==
    req' # req \/ res' # res \/ Stores' # Stores

\* the step handles a request carrying the token of identity u
WithTokenOf(u) ==
    /\ HandlesRequest
    /\ req'.op \notin {"none", "login", "register"}
    /\ req'.caller = u

\* the step handles a loginUser attempt for identity u
LoginFor(u) ==
    /\ HandlesRequest
    /\ req'.op = "login"
    /\ u \in UserByEmail(req'.email)

\* C28 as stated: every loginUser attempt for a deactivated identity is
\* answered 401.
C28_DeactivatedLoginIs401 ==
    [][\A u \in UserIds : ~isActive[u] /\ LoginFor(u) => res'.code = 401]_vars

\* C28: while an identity is deactivated every request with its token is
\* answered 401 and every loginUser attempt for it is answered 401, or 400
\* when the body has no password; none of them changes a store. Once the
\* identity is active again, getCurrentUser with the same token answers 200.
C28_DeactivatedRejected ==
    [][\A u \in UserIds :
          /\ ~isActive[u] /\ WithTokenOf(u)
             => res'.code = 401 /\ Stores' = Stores
          /\ ~isActive[u] /\ LoginFor(u)
             => /\ res'.code \in {400, 401}
                /\ res'.code = 400 => req'.password = NoText
                /\ res'.token = NoToken
                /\ Stores' = Stores
          /\ isActive[u] /\ WithTokenOf(u) /\ req'.op = "me"
             => res'.code = 200]_vars

\* the patient booked, was deactivated, and the cancellation sent with the
\* same token has been refused
C28_Witness ==
    /\ ~isActive["p1"]
    /\ req.op = "cancel" /\ req.caller = "p1"
    /\ res.code = 401
    /\ req.id \in ApptIds
    /\ appointments[req.id].patientId = "p1"
    /\ Live(appointments[req.id])

\* the doctor that started deactivated has been reactivated and the token
\* is accepted
C28_Reactivated ==
    /\ isActive["d3"]
    /\ req.op = "me" /\ req.caller = "d3"
    /\ res.code = 200

\* the step settles the i-th profile fetch in flight
Settles(i) ==
    /\ i \in 1..Len(client.fetches)
    /\ Len(client'.fetches) < Len(client.fetches)
    /\ client'.fetches = Settled(i)

\* C30: the answer to a profile fetch that was started under a token other
\* than the current one changes neither user nor token nor localStorage.
C30_StaleFetchIgnored ==
    [][\A i \in 1..MaxFetches :
          (/\ Settles(i)
           /\ client.fetches[i] # client.token
           /\ \A j \in 1..Len(client.fetches) :
                 client'.fetches = Settled(j) => client.fetches[j] # client.token)
          => /\ client'.user = client.user
             /\ client'.token = client.token
             /\ client'.storage = client.storage]_vars

\* C30, in the quiescent states: with no fetch in flight, user is null or
\* the profile of the identity the current token belongs to.
C30_UserMatchesToken ==
    (client.mounted /\ client.fetches = <<>> /\ client.user # NoUser)
    => client.token # NoToken /\ client.user = getProfile(client.token.id)

====
